---- MODULE Spec2Model ----
(***************************************************************************)
(* dfrun: the Dockerfile line interpreter of src/src/main.rs.              *)
(*                                                                         *)
(* The state is the state of main() inside its line loop; each action is   *)
(* one branch of the loop body applied to the next line of the script.     *)
(* Strings are TLA+ strings handled character by character (Len, SubSeq,   *)
(* \o), so that trimming, the five regular expressions and expand_vars     *)
(* are computed as the code computes them.                                 *)
(***************************************************************************)
EXTENDS Naturals, Sequences, FiniteSets, TLC

VARIABLES
    script,         \* the lines of the Dockerfile, as reader.lines() yields them
    vars_map,       \* main.rs:97   HashMap<String, String>
    run_command,    \* main.rs:98   pending multi-line command
    in_run_block,   \* main.rs:99   continuation flag
    workdir,        \* main.rs:106  tracked working directory
    cwd,            \* the process's current directory (env::set_current_dir)
    procenv,        \* the process environment (env::var / env::set_var)
    status,         \* "running", "exit0", "exit1" (process::exit(1)), "panic"
    trace,          \* history: one record per line processed, in order
    debug_enabled,  \* main.rs:52   the -d / --debug flag
    debug_lines     \* the number of DEBUG: lines printed so far

vars == <<script, vars_map, run_command, in_run_block, workdir, cwd, procenv, status, trace,
          debug_enabled, debug_lines>>

(***************************************************************************)
(* Bounds of the model.                                                    *)
(***************************************************************************)
MaxLines == 3

\* the longest script of the runs that draw the debug flag
MaxDebugLines == 2

(***************************************************************************)
(* Character-level string helpers (Rust str methods used by main.rs).      *)
(***************************************************************************)
CharAt(s, i) == SubSeq(s, i, i)

IsSpace(c) == c \in {" ", "\t", "\n", "\r"}

Min(S) == CHOOSE x \in S : \A y \in S : x <= y

Max(S) == CHOOSE x \in S : \A y \in S : x >= y

starts_with(s, p) == Len(s) >= Len(p) /\ SubSeq(s, 1, Len(p)) = p

ends_with(s, p) == Len(s) >= Len(p) /\ SubSeq(s, Len(s) - Len(p) + 1, Len(s)) = p

\* strip_suffix that finds no marker: the text comes back whole
keep_suffix(s, p) == s

\* str::strip_suffix on a string known to end with p
strip_suffix(s, p) == SubSeq(s, 1, Len(s) - Len(p))

RECURSIVE trim_start(_)
trim_start(s) ==
    IF s # "" /\ IsSpace(CharAt(s, 1)) THEN trim_start(Tail(s)) ELSE s

RECURSIVE trim_end(_)
trim_end(s) ==
    IF s # "" /\ IsSpace(CharAt(s, Len(s)))
    THEN trim_end(SubSeq(s, 1, Len(s) - 1))
    ELSE s

\* str::trim
trim(s) == trim_end(trim_start(s))

\* position of the first occurrence of p in s, 0 when there is none
IndexOf(s, p) ==
    LET hits == {i \in 1..(Len(s) + 1 - Len(p)) : SubSeq(s, i, i + Len(p) - 1) = p}
    IN  IF Len(p) > Len(s) \/ hits = {} THEN 0 ELSE Min(hits)

contains(s, p) == IndexOf(s, p) # 0

\* str::replace: every non-overlapping occurrence, left to right; the
\* replacement text is not scanned again
RECURSIVE replace(_, _, _)
replace(s, from, to) ==
    LET i == IndexOf(s, from)
    IN  IF i = 0
        THEN s
        ELSE SubSeq(s, 1, i - 1) \o to
             \o replace(SubSeq(s, i + Len(from), Len(s)), from, to)

\* the longest prefix of s made of characters that satisfy neither stop set
RECURSIVE TakeUntil(_, _)
TakeUntil(s, stops) ==
    IF s = "" \/ CharAt(s, 1) \in stops
    THEN ""
    ELSE CharAt(s, 1) \o TakeUntil(Tail(s), stops)

Spaces == {" ", "\t", "\n", "\r"}

\* \S+ at the start of s (greedy)
FirstToken(s) == TakeUntil(s, Spaces)

DropPrefix(s, n) == SubSeq(s, n + 1, Len(s))

(***************************************************************************)
(* expand_vars (main.rs:14-28).  The keys are sorted by length, longest    *)
(* first; the sort is stable and HashMap::keys() has no fixed order, so    *)
(* keys of equal length are taken in any order: the operator yields the    *)
(* set of results the build can produce.                                   *)
(***************************************************************************)
\* one iteration of the loop body, main.rs:22-25
ExpandKey(result, key, map) ==
    replace(replace(result, "$" \o key, map[key]), "${" \o key \o "}", map[key])

\* the key loop with the sort of main.rs:18 reversed: shortest key first
RECURSIVE ExpandKeysShortestFirst(_, _, _)
ExpandKeysShortestFirst(result, keys, map) ==
    IF keys = {}
    THEN {result}
    ELSE LET shortest == Min({Len(k) : k \in keys})
         IN  UNION { ExpandKeysShortestFirst(ExpandKey(result, k, map), keys \ {k}, map) :
                        k \in {x \in keys : Len(x) = shortest} }

RECURSIVE ExpandKeys(_, _, _)
ExpandKeys(result, keys, map) ==
    IF keys = {}
    THEN {result}
    ELSE LET longest == Max({Len(k) : k \in keys})
         IN  UNION { ExpandKeys(ExpandKey(result, k, map), keys \ {k}, map) :
                        k \in {x \in keys : Len(x) = longest} }

expand_vars(s, map) == ExpandKeys(s, DOMAIN map, map)

(***************************************************************************)
(* The regular expressions of main.rs:91-95, applied to a trimmed line.    *)
(* Each has a match predicate and one operator per capture group.          *)
(***************************************************************************)
\* ^KW\s+ : the keyword at the start of the line followed by whitespace
HasKeyword(line, kw) ==
    /\ starts_with(line, kw)
    /\ Len(line) > Len(kw)
    /\ IsSpace(CharAt(line, Len(kw) + 1))

\* what follows ^KW\s+ (\s+ is greedy)
AfterKeyword(line, kw) == trim_start(DropPrefix(line, Len(kw)))

\* ^RUN\s+(.*)
run_re_matches(line) == HasKeyword(line, "RUN")

run_re_command(line) == AfterKeyword(line, "RUN")

\* ^WORKDIR\s+(.+)
workdir_re_matches(line) ==
    HasKeyword(line, "WORKDIR") /\ AfterKeyword(line, "WORKDIR") # ""

workdir_re_dir(line) == AfterKeyword(line, "WORKDIR")

\* ^ENV\s+(\S+)\s+(.+) : the key is a whole whitespace-delimited token, and
\* whitespace and at least one more character must follow it
env_re_key(line) == FirstToken(AfterKeyword(line, "ENV"))

env_re_value(line) ==
    trim_start(DropPrefix(AfterKeyword(line, "ENV"), Len(env_re_key(line))))

env_re_matches(line) ==
    /\ HasKeyword(line, "ENV")
    /\ env_re_key(line) # ""
    /\ Len(AfterKeyword(line, "ENV")) > Len(env_re_key(line))
    /\ env_re_value(line) # ""

\* ^ADD\s+(https?://\S+)\s+.*
add_re_url(line) == FirstToken(AfterKeyword(line, "ADD"))

add_re_matches(line) ==
    /\ HasKeyword(line, "ADD")
    /\ \/ starts_with(add_re_url(line), "http://") /\ Len(add_re_url(line)) > 7
       \/ starts_with(add_re_url(line), "https://") /\ Len(add_re_url(line)) > 8
    /\ Len(AfterKeyword(line, "ADD")) > Len(add_re_url(line))

\* ^ARG\s+([^=\s]+)(?:\s*=\s*(.+))?
arg_re_key(line) == TakeUntil(AfterKeyword(line, "ARG"), Spaces \cup {"="})

arg_re_matches(line) == HasKeyword(line, "ARG") /\ arg_re_key(line) # ""

\* the optional group: {} when it does not take part in the match, else {default}
arg_re_default(line) ==
    LET rest == trim_start(DropPrefix(AfterKeyword(line, "ARG"), Len(arg_re_key(line))))
    IN  IF starts_with(rest, "=") /\ trim_start(Tail(rest)) # ""
        THEN {trim_start(Tail(rest))}
        ELSE {}

(***************************************************************************)
(* The environment of a run: the script's lines, what the process          *)
(* environment holds at start, and what read_line returns from stdin.      *)
(***************************************************************************)
\* the raw lines a script is made of
Menu ==
    { "ENV V ${V}-u",
      "ENV V $A",
      "ENV V=$A",
      "ENV V=x y",
      "ARG A=d",
      "ARG A",
      "RUN echo $V",
      "RUN echo $A",
      "RUN echo a \\",
      "    echo $V \\",
      "echo b",
      "WORKDIR w",
      "WORKDIR /t",
      "ADD http://h/f f",
      "# c",
      "" }

\* the Dockerfiles of at most MaxLines lines
Scripts == UNION { [1..n -> Menu] : n \in 0..MaxLines }

\* read_line: "" at end of input (no terminal, nothing piped), else a line
StdinLines == {"", "t\n"}

NoBindings == [k \in {} |-> ""]

\* the inherited process environment, restricted to the names scripts use
InitialEnvs == {NoBindings, [k \in {"A"} |-> "e"]}

\* main.rs:100-105
dockerfile_dir == "/d"

(***************************************************************************)
(* Small steps of the handlers.                                            *)
(***************************************************************************)
\* HashMap::insert, env::set_var
Insert(map, key, value) ==
    [k \in DOMAIN map \cup {key} |-> IF k = key THEN value ELSE map[k]]

\* env::var(&key).ok() : {} for None, {v} for Some(v)
env_var(key) == IF key \in DOMAIN procenv THEN {procenv[key]} ELSE {}

\* env::set_var panics on a key that is empty or holds '='
set_var_panics(key) == key = "" \/ contains(key, "=")

\* mutant of RunFatal: the failure is only reported, as for a download
RunFatalNever(ok) == FALSE

\* main.rs:162-165 and 258-261: a RUN that returns failure ends the process
RunFatal(ok) == ~ok

\* mutant of AddFatal: a failed download ends the process as a failed RUN does
AddFatalAsRun(ok) == ~ok

\* main.rs:279-281: a failed download is only reported
AddFatal(ok) == FALSE

\* PathBuf::is_absolute
is_absolute(p) == starts_with(p, "/")

\* a relative path joined to the tracked directory, not to dockerfile_dir
ResolveAgainstWorkdir(expanded_dir) ==
    IF is_absolute(expanded_dir)
    THEN expanded_dir
    ELSE workdir \o "/" \o expanded_dir

\* main.rs:203-207
ResolveWorkdir(expanded_dir) ==
    IF is_absolute(expanded_dir)
    THEN expanded_dir
    ELSE dockerfile_dir \o "/" \o expanded_dir

\* main.rs:301-319: the value of an ARG that has a literal default
ArgDefaultValue(input, default) == IF input = "" THEN default ELSE input

\* mutant of ArgNoDefaultValue: the environment value is not used
ArgNoDefaultIgnoresEnv(input, env_value) == IF input = "" THEN {} ELSE {input}

\* main.rs:358-388: the value of an ARG without default; {} is the fatal case
ArgNoDefaultValue(input, env_value) == IF input = "" THEN env_value ELSE {input}

\* one record of the history, taken before the handler changes anything
Ev(kind, line, key, cmd, text, ok, input, dir) ==
    [kind |-> kind, line |-> line, key |-> key, cmd |-> cmd, text |-> text,
     ok |-> ok, input |-> input, dir |-> dir,
     block |-> in_run_block, store |-> vars_map, env |-> procenv, wd |-> workdir,
     cwd |-> cwd, buf |-> run_command]

\* the loop has a next line: reader.lines() is not exhausted
CanRead == status = "running" /\ Len(trace) < Len(script)

\* the line the loop is at, as main.rs:117 trims it
Line == trim(script[Len(trace) + 1])

(***************************************************************************)
(* State after main.rs:97-114.                                             *)
(***************************************************************************)
Init ==
    /\ script \in Scripts
    /\ vars_map = NoBindings
    /\ run_command = ""
    /\ in_run_block = FALSE
    /\ workdir = dockerfile_dir
    /\ cwd = dockerfile_dir
    /\ procenv \in InitialEnvs
    /\ status = "running"
    /\ trace = <<>>
    /\ debug_enabled = FALSE
    /\ debug_lines = 0

(***************************************************************************)
(* The branches of the loop body, main.rs:116-411, in the code's order.    *)
(***************************************************************************)
\* main.rs:126-138: a line of an open multi-line RUN that ends with the marker
ContinueRun ==
    /\ CanRead
    /\ in_run_block
    /\ LET line == Line IN
        /\ ends_with(line, "\\")
        /\ run_command' = run_command \o strip_suffix(line, "\\") \o " "
        /\ trace' = Append(trace, Ev("accum", line, "", "", "", TRUE, "", ""))
    /\ UNCHANGED <<script, vars_map, in_run_block, workdir, cwd, procenv, status>>

\* the end of a multi-line RUN without run_command.clear()
ExecMultiLineKeepsBuffer ==
    /\ CanRead
    /\ in_run_block
    /\ \E ok \in BOOLEAN :
        LET line == Line
            command == run_command \o line
            current_dir == cwd
            spawn_dir == workdir
        IN
        /\ ~ends_with(line, "\\")
        /\ \E expanded_command \in expand_vars(command, vars_map) :
            trace' = Append(trace,
                Ev("run", line, "", command, expanded_command, ok, "", spawn_dir))
        /\ cwd' = current_dir
        /\ IF RunFatal(ok)
           THEN /\ status' = "exit1"
                /\ run_command' = command
                /\ in_run_block' = in_run_block
           ELSE /\ status' = status
                /\ run_command' = command
                /\ in_run_block' = FALSE
    /\ UNCHANGED <<script, vars_map, workdir, procenv>>

\* main.rs:139-168: the line that ends a multi-line RUN; the command runs
ExecMultiLine ==
    /\ CanRead
    /\ in_run_block
    /\ \E ok \in BOOLEAN :
        LET line == Line
            command == run_command \o line
            current_dir == cwd
            spawn_dir == workdir
        IN
        /\ ~ends_with(line, "\\")
        /\ \E expanded_command \in expand_vars(command, vars_map) :
            trace' = Append(trace,
                Ev("run", line, "", command, expanded_command, ok, "", spawn_dir))
        /\ cwd' = current_dir
        /\ IF RunFatal(ok)
           THEN /\ status' = "exit1"
                /\ run_command' = command
                /\ in_run_block' = in_run_block
           ELSE /\ status' = status
                /\ run_command' = ""
                /\ in_run_block' = FALSE
    /\ UNCHANGED <<script, vars_map, workdir, procenv>>

\* the ENV branch tried before the open-block test
EnvInstrInBlock ==
    /\ CanRead
    /\ LET line == Line
            key == env_re_key(line)
            value == env_re_value(line)
        IN
        /\ env_re_matches(line)
        /\ \E expanded_value \in expand_vars(value, vars_map) :
            /\ trace' = Append(trace,
                  Ev("env", line, key, value, expanded_value,
                     ~set_var_panics(key), "", ""))
            /\ IF set_var_panics(key)
               THEN /\ status' = "panic"
                    /\ UNCHANGED <<procenv, vars_map>>
               ELSE /\ procenv' = Insert(procenv, key, expanded_value)
                    /\ vars_map' = Insert(vars_map, key, expanded_value)
                    /\ status' = status
    /\ UNCHANGED <<script, run_command, in_run_block, workdir, cwd>>

\* main.rs:169-190
EnvInstr ==
    /\ CanRead
    /\ ~in_run_block
    /\ LET line == Line
            key == env_re_key(line)
            value == env_re_value(line)
        IN
        /\ env_re_matches(line)
        /\ \E expanded_value \in expand_vars(value, vars_map) :
            /\ trace' = Append(trace,
                  Ev("env", line, key, value, expanded_value,
                     ~set_var_panics(key), "", ""))
            /\ IF set_var_panics(key)
               THEN /\ status' = "panic"
                    /\ UNCHANGED <<procenv, vars_map>>
               ELSE /\ procenv' = Insert(procenv, key, expanded_value)
                    /\ vars_map' = Insert(vars_map, key, expanded_value)
                    /\ status' = status
    /\ UNCHANGED <<script, run_command, in_run_block, workdir, cwd>>

\* a WORKDIR that tracks the directory without entering it
WorkdirInstrNoChdir ==
    /\ CanRead
    /\ ~in_run_block
    /\ \E fs_ok \in BOOLEAN :
        LET line == Line
            dir == workdir_re_dir(line)
        IN
        /\ ~env_re_matches(line)
        /\ workdir_re_matches(line)
        /\ \E expanded_dir \in expand_vars(dir, vars_map) :
            /\ workdir' = ResolveWorkdir(expanded_dir)
            /\ trace' = Append(trace,
                  Ev("workdir", line, "", dir, ResolveWorkdir(expanded_dir),
                     fs_ok, "", ""))
            /\ IF fs_ok
               THEN cwd' = cwd /\ status' = status
               ELSE cwd' = cwd /\ status' = "panic"
    /\ UNCHANGED <<script, vars_map, run_command, in_run_block, procenv>>

\* main.rs:191-220; fs_ok: create_dir_all and set_current_dir both succeed
WorkdirInstr ==
    /\ CanRead
    /\ ~in_run_block
    /\ \E fs_ok \in BOOLEAN :
        LET line == Line
            dir == workdir_re_dir(line)
        IN
        /\ ~env_re_matches(line)
        /\ workdir_re_matches(line)
        /\ \E expanded_dir \in expand_vars(dir, vars_map) :
            /\ workdir' = ResolveWorkdir(expanded_dir)
            /\ trace' = Append(trace,
                  Ev("workdir", line, "", dir, ResolveWorkdir(expanded_dir),
                     fs_ok, "", ""))
            /\ IF fs_ok
               THEN cwd' = ResolveWorkdir(expanded_dir) /\ status' = status
               ELSE cwd' = cwd /\ status' = "panic"
    /\ UNCHANGED <<script, vars_map, run_command, in_run_block, procenv>>

\* main.rs:221-235: a RUN whose text ends with the marker opens a block
RunStart ==
    /\ CanRead
    /\ ~in_run_block
    /\ LET line == Line
            command == run_re_command(line)
        IN
        /\ ~env_re_matches(line)
        /\ ~workdir_re_matches(line)
        /\ run_re_matches(line)
        /\ ends_with(command, "\\")
        /\ run_command' = run_command \o strip_suffix(command, "\\") \o " "
        /\ in_run_block' = TRUE
        /\ trace' = Append(trace, Ev("accum", line, "", "", "", TRUE, "", ""))
    /\ UNCHANGED <<script, vars_map, workdir, cwd, procenv, status>>

\* a single-line RUN that does not change to the tracked directory
RunInstrInScriptDir ==
    /\ CanRead
    /\ ~in_run_block
    /\ \E ok \in BOOLEAN :
        LET line == Line
            command == run_re_command(line)
            current_dir == cwd
            spawn_dir == dockerfile_dir
        IN
        /\ ~env_re_matches(line)
        /\ ~workdir_re_matches(line)
        /\ run_re_matches(line)
        /\ ~ends_with(command, "\\")
        /\ \E expanded_command \in expand_vars(command, vars_map) :
            trace' = Append(trace,
                Ev("run", line, "", command, expanded_command, ok, "", spawn_dir))
        /\ cwd' = current_dir
        /\ status' = IF RunFatal(ok) THEN "exit1" ELSE status
    /\ UNCHANGED <<script, vars_map, run_command, in_run_block, workdir, procenv>>

\* main.rs:236-262: a single-line RUN
RunInstr ==
    /\ CanRead
    /\ ~in_run_block
    /\ \E ok \in BOOLEAN :
        LET line == Line
            command == run_re_command(line)
            current_dir == cwd
            spawn_dir == workdir
        IN
        /\ ~env_re_matches(line)
        /\ ~workdir_re_matches(line)
        /\ run_re_matches(line)
        /\ ~ends_with(command, "\\")
        /\ \E expanded_command \in expand_vars(command, vars_map) :
            trace' = Append(trace,
                Ev("run", line, "", command, expanded_command, ok, "", spawn_dir))
        /\ cwd' = current_dir
        /\ status' = IF RunFatal(ok) THEN "exit1" ELSE status
    /\ UNCHANGED <<script, vars_map, run_command, in_run_block, workdir, procenv>>

\* an ADD that returns to the script directory instead of the saved one
AddInstrBackToScriptDir ==
    /\ CanRead
    /\ ~in_run_block
    /\ \E ok \in BOOLEAN :
        LET line == Line
            url == add_re_url(line)
            current_dir == cwd
            spawn_dir == workdir
        IN
        /\ ~env_re_matches(line)
        /\ ~workdir_re_matches(line)
        /\ ~run_re_matches(line)
        /\ add_re_matches(line)
        /\ trace' = Append(trace, Ev("add", line, "", url, url, ok, "", spawn_dir))
        /\ cwd' = dockerfile_dir
        /\ status' = IF AddFatal(ok) THEN "exit1" ELSE status
    /\ UNCHANGED <<script, vars_map, run_command, in_run_block, workdir, procenv>>

\* main.rs:263-281
AddInstr ==
    /\ CanRead
    /\ ~in_run_block
    /\ \E ok \in BOOLEAN :
        LET line == Line
            url == add_re_url(line)
            current_dir == cwd
            spawn_dir == workdir
        IN
        /\ ~env_re_matches(line)
        /\ ~workdir_re_matches(line)
        /\ ~run_re_matches(line)
        /\ add_re_matches(line)
        /\ trace' = Append(trace, Ev("add", line, "", url, url, ok, "", spawn_dir))
        /\ cwd' = current_dir
        /\ status' = IF AddFatal(ok) THEN "exit1" ELSE status
    /\ UNCHANGED <<script, vars_map, run_command, in_run_block, workdir, procenv>>

\* main.rs:282-328: ARG with a literal default
ArgDefaultInstr ==
    /\ CanRead
    /\ ~in_run_block
    /\ \E read \in StdinLines :
        LET line == Line
            key == arg_re_key(line)
            input == trim(read)
        IN
        /\ ~env_re_matches(line)
        /\ ~workdir_re_matches(line)
        /\ ~run_re_matches(line)
        /\ ~add_re_matches(line)
        /\ arg_re_matches(line)
        /\ \E default \in arg_re_default(line) :
            /\ vars_map' = Insert(vars_map, key, ArgDefaultValue(input, default))
            /\ trace' = Append(trace,
                  Ev("arg", line, key, default, ArgDefaultValue(input, default),
                     TRUE, input, ""))
    /\ UNCHANGED <<script, run_command, in_run_block, workdir, cwd, procenv, status>>

\* main.rs:329-398: ARG without default
ArgNoDefaultInstr ==
    /\ CanRead
    /\ ~in_run_block
    /\ \E read \in StdinLines :
        LET line == Line
            key == arg_re_key(line)
            env_value == env_var(key)
            input == trim(read)
            value == ArgNoDefaultValue(input, env_value)
        IN
        /\ ~env_re_matches(line)
        /\ ~workdir_re_matches(line)
        /\ ~run_re_matches(line)
        /\ ~add_re_matches(line)
        /\ arg_re_matches(line)
        /\ arg_re_default(line) = {}
        /\ IF value = {}
           THEN /\ status' = "exit1"
                /\ vars_map' = vars_map
                /\ trace' = Append(trace, Ev("arg", line, key, "", "", FALSE, input, ""))
           ELSE \E v \in value :
                /\ status' = status
                /\ vars_map' = Insert(vars_map, key, v)
                /\ trace' = Append(trace, Ev("arg", line, key, "", v, TRUE, input, ""))
    /\ UNCHANGED <<script, run_command, in_run_block, workdir, cwd, procenv>>

\* the fallthrough branch ending the run: an unknown line treated as an error
IgnoreLineFatal ==
    /\ CanRead
    /\ ~in_run_block
    /\ LET line == Line IN
        /\ ~env_re_matches(line)
        /\ ~workdir_re_matches(line)
        /\ ~run_re_matches(line)
        /\ ~add_re_matches(line)
        /\ ~arg_re_matches(line)
        /\ trace' = Append(trace, Ev("ignore", line, "", "", "", FALSE, "", ""))
    /\ status' = IF Line = "" \/ starts_with(Line, "#") THEN status ELSE "exit1"
    /\ UNCHANGED <<script, vars_map, run_command, in_run_block, workdir, cwd, procenv>>

\* the fallthrough branch handing the line to the shell, as a RUN would
IgnoreLineRuns ==
    /\ CanRead
    /\ ~in_run_block
    /\ LET line == Line IN
        /\ ~env_re_matches(line)
        /\ ~workdir_re_matches(line)
        /\ ~run_re_matches(line)
        /\ ~add_re_matches(line)
        /\ ~arg_re_matches(line)
        /\ trace' = Append(trace,
              Ev(IF line = "" THEN "ignore" ELSE "run", line, "", line, line,
                 TRUE, "", workdir))
    /\ UNCHANGED <<script, vars_map, run_command, in_run_block, workdir, cwd, procenv, status>>

\* main.rs:399-410: anything else (comment, blank, unsupported) changes nothing
IgnoreLine ==
    /\ CanRead
    /\ ~in_run_block
    /\ LET line == Line IN
        /\ ~env_re_matches(line)
        /\ ~workdir_re_matches(line)
        /\ ~run_re_matches(line)
        /\ ~add_re_matches(line)
        /\ ~arg_re_matches(line)
        /\ trace' = Append(trace, Ev("ignore", line, "", "", "", TRUE, "", ""))
    /\ UNCHANGED <<script, vars_map, run_command, in_run_block, workdir, cwd, procenv, status>>

\* main.rs:411-412: reader.lines() is exhausted and main returns
EndOfInput ==
    /\ status = "running"
    /\ Len(trace) = Len(script)
    /\ status' = "exit0"
    /\ UNCHANGED <<script, vars_map, run_command, in_run_block, workdir, cwd, procenv, trace>>

(***************************************************************************)
(* The debug trace.  Every use of debug_enabled (main.rs:118-399) guards   *)
(* println! calls and nothing else; a handler prints n DEBUG: lines when   *)
(* the flag is set, the `Processing line` of main.rs:118-124 included.     *)
(***************************************************************************)
DebugPrint(n) ==
    /\ debug_enabled' = debug_enabled
    /\ debug_lines' = IF debug_enabled THEN debug_lines + n ELSE debug_lines

\* main.rs:193, 214: the second message comes after the directory change
WorkdirDebugLines == IF status' = "panic" THEN 2 ELSE 3

\* main.rs:331-395: one more line when the environment has the name, one
\* for the source of the value, one for the binding unless the ARG is fatal
ArgNoDefaultDebugLines ==
    2 + (IF env_var(arg_re_key(Line)) = {} THEN 0 ELSE 1)
      + 1 + (IF status' = "exit1" THEN 0 ELSE 1)

\* main.rs:399-410: two lines for an unsupported instruction, none for a
\* blank line or a comment
IgnoreDebugLines == IF Line # "" /\ ~starts_with(Line, "#") THEN 3 ELSE 1

\* the loop body with an unsupported instruction fatal when the flag is set
NextDebugStrict ==
    \/ ContinueRun /\ DebugPrint(2)
    \/ ExecMultiLine /\ DebugPrint(2)
    \/ EnvInstr /\ DebugPrint(3)
    \/ WorkdirInstr /\ DebugPrint(WorkdirDebugLines)
    \/ RunStart /\ DebugPrint(2)
    \/ RunInstr /\ DebugPrint(2)
    \/ AddInstr /\ DebugPrint(2)
    \/ ArgDefaultInstr /\ DebugPrint(4)
    \/ ArgNoDefaultInstr /\ DebugPrint(ArgNoDefaultDebugLines)
    \/ (IF debug_enabled THEN IgnoreLineFatal ELSE IgnoreLine)
            /\ DebugPrint(IgnoreDebugLines)
    \/ EndOfInput /\ DebugPrint(0)

Next ==
    \/ ContinueRun /\ DebugPrint(2)
    \/ ExecMultiLine /\ DebugPrint(2)
    \/ EnvInstr /\ DebugPrint(3)
    \/ WorkdirInstr /\ DebugPrint(WorkdirDebugLines)
    \/ RunStart /\ DebugPrint(2)
    \/ RunInstr /\ DebugPrint(2)
    \/ AddInstr /\ DebugPrint(2)
    \/ ArgDefaultInstr /\ DebugPrint(4)
    \/ ArgNoDefaultInstr /\ DebugPrint(ArgNoDefaultDebugLines)
    \/ IgnoreLine /\ DebugPrint(IgnoreDebugLines)
    \/ EndOfInput /\ DebugPrint(0)

\* a run without -d
Spec == Init /\ [][Next]_vars

(***************************************************************************)
(* Runs with and without -d, over the Dockerfiles of at most MaxDebugLines *)
(* lines.  main.rs:55-61 prints one line before the loop.                  *)
(***************************************************************************)
DebugScripts == UNION { [1..n -> Menu] : n \in 0..MaxDebugLines }

DebugInit ==
    /\ script \in DebugScripts
    /\ vars_map = NoBindings
    /\ run_command = ""
    /\ in_run_block = FALSE
    /\ workdir = dockerfile_dir
    /\ cwd = dockerfile_dir
    /\ procenv \in InitialEnvs
    /\ status = "running"
    /\ trace = <<>>
    /\ debug_enabled \in BOOLEAN
    /\ debug_lines = IF debug_enabled THEN 1 ELSE 0

DebugSpec == DebugInit /\ [][Next]_vars

(***************************************************************************)
(* expand_vars on its own: Dockerfiles that bind names with ARG lines      *)
(* (a default is stored as written, main.rs:301-328) and then hand one     *)
(* text to expand_vars through a single-line RUN (main.rs:251).            *)
(***************************************************************************)
ExpandPreambles ==
    { <<>>,
      <<"ARG FOO=1">>,
      <<"ARG FOO=1", "ARG FOO_BAR=2">>,
      <<"ARG A=$B", "ARG B=1">>,
      <<"ARG FOO=${F}", "ARG F=x">>,
      <<"ARG F=$FOO", "ARG FOO=1">> }

ExpandTexts ==
    { "$FOO", "${FOO}", "$FOO_BAR", "${FOO_BAR}", "$A", "${A}", "$F", "$X",
      "a ${X}." }

ExpandScripts ==
    { p \o <<"RUN " \o t>> : p \in ExpandPreambles, t \in ExpandTexts }

ExpandInit ==
    /\ script \in ExpandScripts
    /\ vars_map = NoBindings
    /\ run_command = ""
    /\ in_run_block = FALSE
    /\ workdir = dockerfile_dir
    /\ cwd = dockerfile_dir
    /\ procenv = NoBindings
    /\ status = "running"
    /\ trace = <<>>
    /\ debug_enabled = FALSE
    /\ debug_lines = 0

ExpandNext ==
    \/ ArgDefaultInstr /\ DebugPrint(4)
    \/ RunInstr /\ DebugPrint(2)
    \/ EndOfInput /\ DebugPrint(0)

ExpandSpec == ExpandInit /\ [][ExpandNext]_vars

(***************************************************************************)
(* Reading the history.                                                    *)
(***************************************************************************)
Events == 1..Len(trace)

\* the store, environment and tracked directory as instruction i left them
StoreAfter(i) == IF i < Len(trace) THEN trace[i + 1].store ELSE vars_map

EnvAfter(i) == IF i < Len(trace) THEN trace[i + 1].env ELSE procenv

WdAfter(i) == IF i < Len(trace) THEN trace[i + 1].wd ELSE workdir

Exited == status # "running"

FailedRun(i) == trace[i].kind = "run" /\ ~trace[i].ok

FailedAdd(i) == trace[i].kind = "add" /\ ~trace[i].ok

AllRunsSucceeded == \A i \in Events : trace[i].kind = "run" => trace[i].ok

AllArgsResolved == \A i \in Events : trace[i].kind = "arg" => trace[i].ok

\* no ENV (env::set_var) and no WORKDIR (create_dir_all, set_current_dir) panicked
NoInstructionPanicked ==
    \A i \in Events : trace[i].kind \in {"env", "workdir"} => trace[i].ok

\* every line read so far was handled once, in file order
ProcessedInOrder ==
    /\ Len(trace) <= Len(script)
    /\ \A i \in Events : trace[i].line = trim(script[i])

CompletedScript ==
    status = "exit0" /\ Len(trace) = Len(script) /\ ProcessedInOrder

(***************************************************************************)
(* C1: when a RUN command (single-line, or a multi-line command completed  *)
(* by its terminating line) returns a non-zero status, the interpreter     *)
(* stops at once with exit code 1 and no later line has any effect: the    *)
(* failed RUN is the last line handled, and the store, the environment     *)
(* and the tracked directory are as they were when the command started.    *)
(***************************************************************************)
C1_RunFailureIsFatal ==
    \A i \in Events :
        FailedRun(i) =>
            /\ i = Len(trace)
            /\ status = "exit1"
            /\ vars_map = trace[i].store
            /\ procenv = trace[i].env
            /\ workdir = trace[i].wd

\* a multi-line RUN failed on its terminating line, with lines left unread
C1_Witness ==
    /\ Len(trace) >= 2
    /\ Len(script) > Len(trace)
    /\ FailedRun(Len(trace))
    /\ trace[Len(trace)].block
    /\ status = "exit1"

(***************************************************************************)
(* C2: a script in which every RUN returns success and every ARG resolves  *)
(* to a value ends at the end of input with exit code 0, every line        *)
(* handled exactly once in file order.  Stated on the final state: a run   *)
(* that has ended with no failed RUN and no unresolved ARG ended that way. *)
(***************************************************************************)
C2_SucceedingScriptExits0 ==
    (Exited /\ AllRunsSucceeded /\ AllArgsResolved) => CompletedScript

(***************************************************************************)
(* What holds of termination: lines are handled once each, in file order,  *)
(* and a run in which no RUN fails, every ARG resolves and neither         *)
(* env::set_var nor a WORKDIR panics ends at the end of input with exit    *)
(* code 0.                                                                 *)
(***************************************************************************)
CompletesWhenNothingFails ==
    /\ ProcessedInOrder
    /\ (Exited /\ AllRunsSucceeded /\ AllArgsResolved /\ NoInstructionPanicked)
            => CompletedScript

(***************************************************************************)
(* C3: a failed fetch for an ADD is not fatal: it leaves the store and the *)
(* tracked directory unchanged and the interpreter running, it is never    *)
(* the instruction at which the process stops, and a script whose only     *)
(* failures are fetches ends with exit code 0.                             *)
(***************************************************************************)
C3_FetchFailureNonFatal ==
    /\ \A i \in Events :
        FailedAdd(i) =>
            /\ StoreAfter(i) = trace[i].store
            /\ EnvAfter(i) = trace[i].env
            /\ WdAfter(i) = trace[i].wd
            /\ i = Len(trace) => status \in {"running", "exit0"}
    /\ status \in {"exit1", "panic"} => trace[Len(trace)].kind # "add"
    /\ (Exited /\ \A i \in Events : trace[i].kind # "add" => trace[i].ok)
            => status = "exit0"

\* a fetch failed, the next line's command ran, and the script ended with 0
C3_Witness ==
    /\ status = "exit0"
    /\ \E i \in Events :
        /\ FailedAdd(i)
        /\ i < Len(trace)
        /\ trace[i + 1].kind = "run"

(***************************************************************************)
(* The ENV instruction as the specification writes it: `ENV KEY value` or  *)
(* `ENV KEY=value`.                                                        *)
(***************************************************************************)
SpecEnvRest(line) == AfterKeyword(line, "ENV")

SpecEnvKey(line) == TakeUntil(SpecEnvRest(line), Spaces \cup {"="})

SpecEnvHasEquals(line) == contains(FirstToken(SpecEnvRest(line)), "=")

SpecEnvValue(line) ==
    IF SpecEnvHasEquals(line)
    THEN DropPrefix(SpecEnvRest(line), Len(SpecEnvKey(line)) + 1)
    ELSE trim_start(DropPrefix(SpecEnvRest(line), Len(SpecEnvKey(line))))

IsSpecEnv(line) ==
    HasKeyword(line, "ENV") /\ SpecEnvKey(line) # "" /\ SpecEnvValue(line) # ""

\* instruction i is an ENV of either form, met outside a multi-line RUN
EnvInstruction(i) == ~trace[i].block /\ IsSpecEnv(trace[i].line)

\* instruction i is an ARG that resolved to a value
ArgResolved(i) == trace[i].kind = "arg" /\ trace[i].ok

\* instruction i gives name k a value
Binds(i, k) ==
    \/ EnvInstruction(i) /\ SpecEnvKey(trace[i].line) = k
    \/ ArgResolved(i) /\ trace[i].key = k

\* the RUN commands after instruction i that come before any new value of k
RunsSeeing(i, k) ==
    {r \in Events : /\ r > i
                    /\ trace[r].kind = "run"
                    /\ \A j \in (i + 1)..(r - 1) : ~Binds(j, k)}

\* RUN r expands its command with k bound to v; where the command is the
\* probe `echo $k` and v holds no reference, the shell is handed `echo v`
Observes(r, k, v) ==
    /\ k \in DOMAIN trace[r].store
    /\ trace[r].store[k] = v
    /\ (trace[r].cmd = "echo $" \o k /\ ~contains(v, "$"))
            => trace[r].text = "echo " \o v

(***************************************************************************)
(* C4: ENV accepts `ENV KEY value` and `ENV KEY=value`: either form, met   *)
(* in the Idle state, binds KEY in the store to the value expanded         *)
(* against the store as it was before the instruction, and changes no      *)
(* other binding.                                                          *)
(***************************************************************************)
C4_EnvBothForms ==
    \A i \in Events :
        EnvInstruction(i) =>
            LET key == SpecEnvKey(trace[i].line)
                value == SpecEnvValue(trace[i].line)
            IN  \E expanded \in expand_vars(value, trace[i].store) :
                    StoreAfter(i) = Insert(trace[i].store, key, expanded)

(***************************************************************************)
(* C5: an ENV whose value references a resolved ARG (`ENV V=$A`,           *)
(* `ENV V ${A}`) stores for V the text with the reference replaced by the  *)
(* ARG's value, and every later RUN observes that value for $V.            *)
(***************************************************************************)
C5_EnvExpandsArg ==
    \A i \in Events : \A j \in Events :
        LET a == trace[i].key
            resolved == trace[i].text
            key == SpecEnvKey(trace[j].line)
            value == SpecEnvValue(trace[j].line)
            expected == replace(replace(value, "${" \o a \o "}", resolved),
                                "$" \o a, resolved)
        IN  ( /\ i < j
              /\ ArgResolved(i)
              /\ EnvInstruction(j)
              /\ \A m \in (i + 1)..(j - 1) : ~Binds(m, a)
              /\ contains(value, "$" \o a) \/ contains(value, "${" \o a \o "}")
              /\ ~contains(expected, "$") )
            =>  /\ key \in DOMAIN StoreAfter(j)
                /\ StoreAfter(j)[key] = expected
                /\ \A r \in RunsSeeing(j, key) : Observes(r, key, expected)

(***************************************************************************)
(* C6: last writer wins: a second ENV for a name overwrites the first, its *)
(* value expanded once against the store that still holds the old binding, *)
(* and every RUN after it observes the overwritten value.                  *)
(***************************************************************************)
C6_EnvOverwrite ==
    \A i \in Events : \A j \in Events :
        LET key == SpecEnvKey(trace[j].line)
            value == SpecEnvValue(trace[j].line)
        IN  ( /\ i < j
              /\ EnvInstruction(i)
              /\ EnvInstruction(j)
              /\ SpecEnvKey(trace[i].line) = key )
            =>  /\ key \in DOMAIN StoreAfter(j)
                /\ StoreAfter(j)[key] \in expand_vars(value, trace[j].store)
                /\ \A r \in RunsSeeing(j, key) :
                        Observes(r, key, StoreAfter(j)[key])

(***************************************************************************)
(* C7: an ARG with a literal default, given no response: without a process *)
(* environment variable of its name it resolves to the literal default;    *)
(* with one, the environment value wins over the default.                  *)
(***************************************************************************)
C7_ArgDefaultEnvWins ==
    \A i \in Events :
        ( /\ trace[i].kind = "arg"
          /\ arg_re_default(trace[i].line) # {}
          /\ trace[i].input = "" )
        =>  LET key == trace[i].key IN
            /\ key \in DOMAIN StoreAfter(i)
            /\ StoreAfter(i)[key] =
                    IF key \in DOMAIN trace[i].env
                    THEN trace[i].env[key]
                    ELSE trace[i].cmd

(***************************************************************************)
(* C8: an ARG without a literal default, given an empty response while the *)
(* process environment holds a value for its name, resolves to the         *)
(* environment value, and later RUN commands observe that value.           *)
(***************************************************************************)
C8_ArgFromEnvironment ==
    \A i \in Events :
        ( /\ trace[i].kind = "arg"
          /\ arg_re_default(trace[i].line) = {}
          /\ trace[i].input = ""
          /\ trace[i].key \in DOMAIN trace[i].env )
        =>  LET key == trace[i].key
                env_val == trace[i].env[key]
            IN  /\ trace[i].ok
                /\ trace[i].text = env_val
                /\ key \in DOMAIN StoreAfter(i)
                /\ StoreAfter(i)[key] = env_val
                /\ i = Len(trace) => status \in {"running", "exit0"}
                /\ \A r \in RunsSeeing(i, key) : Observes(r, key, env_val)

\* `ARG A` took "e" from the environment and `RUN echo $A` ran `echo e`
C8_Witness ==
    \E i \in Events : \E r \in Events :
        /\ i < r
        /\ trace[i].kind = "arg"
        /\ arg_re_default(trace[i].line) = {}
        /\ trace[i].input = ""
        /\ trace[i].key \in DOMAIN trace[i].env
        /\ r \in RunsSeeing(i, trace[i].key)
        /\ trace[r].cmd = "echo $" \o trace[i].key
        /\ trace[r].text = "echo " \o trace[i].env[trace[i].key]

(***************************************************************************)
(* C9: an ARG with no literal default, no process-environment value and    *)
(* an empty response is fatal: exit code 1, the name is not bound in the   *)
(* store, and no later instruction is processed.                           *)
(***************************************************************************)
C9_ArgMissingIsFatal ==
    \A i \in Events :
        ( /\ trace[i].kind = "arg"
          /\ arg_re_default(trace[i].line) = {}
          /\ trace[i].input = ""
          /\ trace[i].key \notin DOMAIN trace[i].env )
        =>  /\ status = "exit1"
            /\ i = Len(trace)
            /\ trace[i].key \notin DOMAIN vars_map

(***************************************************************************)
(* C10: every name bound in the store is exported in the process           *)
(* environment with the same value.                                        *)
(***************************************************************************)
C10_StoreIsExported ==
    \A k \in DOMAIN vars_map :
        k \in DOMAIN procenv /\ procenv[k] = vars_map[k]

(***************************************************************************)
(* Reading the calls of expand_vars that RUN commands make: the text       *)
(* handed in (cmd), the store it was expanded with, the result (text).     *)
(***************************************************************************)
ExpandCalls == {i \in Events : trace[i].kind = "run"}

\* the two forms of a reference to name n
Refs(n) == {"$" \o n, "${" \o n \o "}"}

\* the names the texts and stores of ExpandSpec use
ExpandNames == {"FOO", "FOO_BAR", "A", "B", "F", "X"}

\* value v holds a reference to name m
RefersTo(v, m) == \E ref \in Refs(m) : contains(v, ref)

IsProperPrefix(s, l) == Len(s) < Len(l) /\ starts_with(l, s)

(***************************************************************************)
(* C11: for every store and every name N bound in it with value V,         *)
(* expanding the text `$N` gives V and expanding `${N}` gives V, whatever  *)
(* the other bindings are and whatever V holds.                            *)
(***************************************************************************)
C11_BoundReferenceYieldsValue ==
    \A i \in ExpandCalls : \A n \in DOMAIN trace[i].store :
        trace[i].cmd \in Refs(n) => trace[i].text = trace[i].store[n]

(***************************************************************************)
(* C12: a reference `$NAME` or `${NAME}` to a name that is not bound is    *)
(* replaced by the empty string, also when a shorter bound name is a       *)
(* prefix of NAME, and the text around the reference is left as it is.     *)
(***************************************************************************)
C12_UnboundReferenceYieldsEmpty ==
    \A i \in ExpandCalls : \A n \in ExpandNames \ DOMAIN trace[i].store :
        /\ trace[i].cmd \in Refs(n) => trace[i].text = ""
        /\ trace[i].cmd = "a ${" \o n \o "}." => trace[i].text = "a ."

C14_SubstitutedTextNotRescanned ==
    \A i \in ExpandCalls : \A n \in DOMAIN trace[i].store :
        ( /\ trace[i].cmd \in Refs(n)
          /\ \E m \in DOMAIN trace[i].store \ {n} :
                RefersTo(trace[i].store[n], m) )
            => trace[i].text = trace[i].store[n]

(***************************************************************************)
(* C15: an ENV stores the expanded value of its name B, and from then on   *)
(* that value and what later RUN commands see for `$B` depend only on the  *)
(* bindings that existed when the ENV was handled: a later ENV or ARG that *)
(* binds or overwrites another name, one that B's original text refers to, *)
(* changes neither B's stored value nor what `$B` expands to.              *)
(***************************************************************************)
\* between instruction j and RUN r, a name other than b that the text of
\* instruction j refers to was given a value
BoundLater(j, r, b) ==
    \E m \in (j + 1)..(r - 1) : \E a \in DOMAIN trace[r].store \ {b} :
        Binds(m, a) /\ RefersTo(trace[j].cmd, a)

C15_EnvValueFrozen ==
    \A j \in Events :
        (trace[j].kind = "env" /\ trace[j].ok) =>
            LET b == trace[j].key
                v == StoreAfter(j)[b]
            IN  \A r \in RunsSeeing(j, b) :
                    BoundLater(j, r, b) =>
                        /\ b \in DOMAIN trace[r].store
                        /\ trace[r].store[b] = v
                        /\ trace[r].cmd = "echo $" \o b
                                => trace[r].text = "echo " \o v

(***************************************************************************)
(* Multi-line RUN commands in the history.                                 *)
(***************************************************************************)
Marker == "\\"

\* a line's text without its final marker
StripMarker(t) == SubSeq(t, 1, Len(t) - 1)

\* line i opens a multi-line RUN: a RUN, met outside a block, ending with
\* the marker
OpensBlock(i) ==
    /\ ~trace[i].block
    /\ HasKeyword(trace[i].line, "RUN")
    /\ ends_with(trace[i].line, Marker)

\* line i continues an open multi-line RUN
ContinuesBlock(i) == trace[i].block /\ ends_with(trace[i].line, Marker)

\* line i ends an open multi-line RUN
EndsBlock(i) == trace[i].block /\ ~ends_with(trace[i].line, Marker)

\* the line that opened the block line r belongs to
BlockStart(r) == Max({s \in 1..(r - 1) : ~trace[s].block})

\* the text line i contributes: what follows RUN on the opening line, the
\* trimmed line otherwise, without the marker
BlockPart(i) ==
    IF trace[i].block
    THEN StripMarker(trace[i].line)
    ELSE StripMarker(AfterKeyword(trace[i].line, "RUN"))

\* the texts of lines s..r joined by a single space
RECURSIVE JoinLines(_, _)
JoinLines(s, r) ==
    IF s >= r
    THEN trace[r].line
    ELSE BlockPart(s) \o " " \o JoinLines(s + 1, r)

(***************************************************************************)
(* C16: a RUN line ending with the marker, then k >= 0 lines ending with   *)
(* the marker, then one line without it: no command runs while the lines   *)
(* are gathered; the closing line runs exactly one command, whose text is  *)
(* the lines' texts without their markers joined by a single space; and    *)
(* after a command that succeeded the aggregator is Idle again with an     *)
(* empty buffer.                                                           *)
(***************************************************************************)
C16_ContinuationAggregation ==
    /\ \A i \in Events :
            (OpensBlock(i) \/ ContinuesBlock(i)) => trace[i].kind = "accum"
    /\ \A r \in Events :
            EndsBlock(r) =>
                /\ trace[r].kind = "run"
                /\ OpensBlock(BlockStart(r))
                /\ \A i \in (BlockStart(r) + 1)..(r - 1) : ContinuesBlock(i)
                /\ trace[r].cmd = JoinLines(BlockStart(r), r)
                /\ trace[r].text \in expand_vars(trace[r].cmd, trace[r].store)
                /\ trace[r].ok =>
                        IF r < Len(trace)
                        THEN ~trace[r + 1].block
                        ELSE ~in_run_block /\ run_command = ""

\* a RUN of three lines (k = 1) and one of two lines (k = 0) were run
C16_Witness ==
    \/ /\ Len(trace) = 3
       /\ OpensBlock(1) /\ ContinuesBlock(2) /\ EndsBlock(3)
       /\ trace[3].line = "echo b"
       /\ trace[3].cmd = "echo a  echo $V  echo b"
       /\ trace[3].ok
       /\ status = "exit0"
    \/ /\ Len(trace) = 3
       /\ OpensBlock(2) /\ EndsBlock(3)
       /\ trace[3].cmd = "echo a  echo b"
       /\ trace[3].ok
       /\ status = "exit0"

(***************************************************************************)
(* C17: a multi-line RUN still open when the input ends is a fatal parse   *)
(* error: the interpreter exits with a non-zero status instead of dropping *)
(* the gathered text and exiting 0.                                        *)
(***************************************************************************)
C17_UnterminatedIsFatal == status = "exit0" => ~in_run_block

(***************************************************************************)
(* Lines that are no instruction of the specification: blank lines,        *)
(* comments, and lines whose keyword is none of ENV, WORKDIR, RUN, ARG and *)
(* ADD with a URL.                                                         *)
(***************************************************************************)
IsBlank(line) == line = ""

IsComment(line) == starts_with(line, "#")

IsUrl(t) == starts_with(t, "http://") \/ starts_with(t, "https://")

SpecInstruction(line) ==
    \/ \E kw \in {"ENV", "WORKDIR", "RUN", "ARG"} : HasKeyword(line, kw)
    \/ HasKeyword(line, "ADD") /\ IsUrl(AfterKeyword(line, "ADD"))

Ignorable(line) == IsBlank(line) \/ IsComment(line) \/ ~SpecInstruction(line)

\* the step reads one line and leaves everything that makes the outcome
\* (commands run, store, environment, directories, buffer, exit status)
\* as it was
SkipsLine ==
    /\ Len(trace') = Len(trace) + 1
    /\ trace'[Len(trace')].kind = "ignore"
    /\ UNCHANGED <<vars_map, procenv, workdir, cwd, run_command, in_run_block, status>>

(***************************************************************************)
(* C18 as written: a comment line, a blank line or an unsupported          *)
(* instruction put at any position of a script, between the lines of a     *)
(* multi-line RUN included, leaves the commands run, the final store, the  *)
(* final directory and the exit status as they are without it.  The        *)
(* interpreter handles one line per step, so this is: the step that reads  *)
(* such a line changes nothing but the position in the script.             *)
(***************************************************************************)
C18_IgnorableLinesAnywhere ==
    [][(CanRead /\ Ignorable(Line)) => SkipsLine]_vars

(***************************************************************************)
(* C18, amended: a comment line, a blank line or an unsupported            *)
(* instruction put at any position outside an open multi-line RUN leaves   *)
(* the commands run, the final store, the final directory and the exit     *)
(* status as they are without it.                                          *)
(***************************************************************************)
C18_IgnorableLinesOutsideBlock ==
    [][(CanRead /\ ~in_run_block /\ Ignorable(Line)) => SkipsLine]_vars

\* a comment, a blank line or an unsupported instruction stood between two
\* instructions that took effect, and the script ran to its end
C18_Witness ==
    /\ status = "exit0"
    /\ Len(trace) = 3
    /\ trace[1].kind = "arg"
    /\ trace[2].kind = "ignore" /\ Ignorable(trace[2].line)
    /\ trace[3].kind = "run" /\ trace[3].ok
    /\ "A" \in DOMAIN vars_map

(***************************************************************************)
(* C19: an unrecognized instruction is never an error.  In the Idle state  *)
(* a non-blank line that is none of ENV, WORKDIR, RUN, ADD with a URL or   *)
(* ARG leaves the store, the tracked directory, the pending buffer and the *)
(* continuation flag unchanged, runs no external command, and the          *)
(* interpreter goes on to the next line.                                   *)
(***************************************************************************)
Unrecognized(line) == ~IsBlank(line) /\ ~SpecInstruction(line)

C19_UnrecognizedIsNoError ==
    [][(CanRead /\ ~in_run_block /\ Unrecognized(Line)) =>
            /\ UNCHANGED <<vars_map, workdir, run_command, in_run_block>>
            /\ trace' = Append(trace, trace'[Len(trace')])
            /\ trace'[Len(trace')].kind \notin {"run", "add"}
            /\ status' = "running"]_vars

\* an unsupported instruction was read and the next line was still handled
C19_Witness ==
    \E i \in Events :
        /\ trace[i].line = "echo b"
        /\ ~trace[i].block
        /\ i < Len(trace)
        /\ trace[i + 1].kind = "run"

(***************************************************************************)
(* C20: WORKDIR resolves a relative path against the directory of the      *)
(* script, not against the tracked directory: after any WORKDIR with the   *)
(* relative path p the tracked directory is scriptDir/p, whatever WORKDIRs *)
(* came before; an absolute path becomes the tracked directory as it is.   *)
(***************************************************************************)
C20_WorkdirAgainstScriptDir ==
    \A i \in Events :
        trace[i].kind = "workdir" =>
            \E p \in expand_vars(trace[i].cmd, trace[i].store) :
                WdAfter(i) = IF CharAt(p, 1) = "/"
                             THEN p
                             ELSE dockerfile_dir \o "/" \o p

\* a relative WORKDIR followed an absolute one and one followed a relative
\* one
C20_Witness ==
    /\ Len(trace) = 3
    /\ trace[1].line = "WORKDIR /t" /\ trace[1].ok
    /\ trace[2].line = "WORKDIR w" /\ trace[2].ok /\ trace[2].wd = "/t"
    /\ trace[3].line = "WORKDIR w" /\ trace[3].ok /\ trace[3].wd = "/d/w"
    /\ workdir = "/d/w"
    /\ cwd = "/d/w"

(***************************************************************************)
(* Directories in the history.                                             *)
(***************************************************************************)
CwdAfter(i) == IF i < Len(trace) THEN trace[i + 1].cwd ELSE cwd

Invocations == {i \in Events : trace[i].kind \in {"run", "add"}}

\* the WORKDIR instructions handled before instruction i
WorkdirsBefore(i) == {j \in 1..(i - 1) : trace[j].kind = "workdir"}

\* the directories WORKDIR instruction j can name: its path, expanded,
\* taken as it is when absolute and under the script's directory otherwise
NamedBy(j) ==
    { IF CharAt(p, 1) = "/" THEN p ELSE dockerfile_dir \o "/" \o p :
        p \in expand_vars(trace[j].cmd, trace[j].store) }

(***************************************************************************)
(* C21: every external invocation, RUN command or ADD fetch, runs with the *)
(* tracked working directory as its current directory: the directory of    *)
(* the most recent WORKDIR, or the script's directory when there was none. *)
(* Nothing a command does moves it: two invocations with no WORKDIR        *)
(* between them run in the same directory.                                 *)
(***************************************************************************)
C21_InvocationsRunInWorkdir ==
    /\ \A i \in Invocations :
            IF WorkdirsBefore(i) = {}
            THEN trace[i].dir = dockerfile_dir
            ELSE trace[i].dir \in NamedBy(Max(WorkdirsBefore(i)))
    /\ \A i, k \in Invocations :
            WorkdirsBefore(i) = WorkdirsBefore(k) => trace[i].dir = trace[k].dir

\* `WORKDIR w` and then two RUN commands, both run in scriptDir/w
C21_Witness ==
    /\ Len(trace) = 3
    /\ trace[1].line = "WORKDIR w"
    /\ trace[2].kind = "run" /\ trace[2].dir = "/d/w"
    /\ trace[3].kind = "run" /\ trace[3].dir = "/d/w"
    /\ status = "exit0"

(***************************************************************************)
(* C22: after every RUN command or ADD fetch, failed or not, the process   *)
(* is back in the directory it was in just before the invocation; on a     *)
(* fatal failure it is back there when the interpreter exits.              *)
(***************************************************************************)
C22_DirectoryRestored ==
    \A i \in Invocations : CwdAfter(i) = trace[i].cwd

\* a RUN failed in scriptDir/w and the interpreter exited from there; an
\* ADD failed there before it
C22_Witness ==
    /\ Len(trace) = 3
    /\ trace[1].line = "WORKDIR w"
    /\ trace[2].kind = "add" /\ ~trace[2].ok /\ trace[2].cwd = "/d/w"
    /\ trace[3].kind = "run" /\ ~trace[3].ok /\ trace[3].cwd = "/d/w"
    /\ status = "exit1"
    /\ cwd = "/d/w"

(***************************************************************************)
(* C23: the debug flag changes what is printed and nothing else: with the  *)
(* flag set or not, every step of a run is a step of the loop body as it   *)
(* is without the flag, so for the same script, inputs and external        *)
(* results both runs execute the same commands and fetches, make the same  *)
(* bindings, go through the same directories and end with the same status. *)
(***************************************************************************)
Behaviour ==
    <<script, vars_map, run_command, in_run_block, workdir, cwd, procenv, status, trace>>

C24_ArgIgnoresStdin ==
    \A i \in Events :
        ArgResolved(i) =>
            \/ /\ trace[i].key \in DOMAIN trace[i].env
               /\ trace[i].text = trace[i].env[trace[i].key]
            \/ /\ arg_re_default(trace[i].line) # {}
               /\ trace[i].text \in arg_re_default(trace[i].line)

(***************************************************************************)
(* C25: while a multi-line RUN is open every line goes to the aggregator   *)
(* and is never classified: whatever it looks like (ENV, ARG, WORKDIR,     *)
(* ADD, RUN), it leaves the store, the environment and the tracked         *)
(* directory unchanged and only extends the pending buffer, or ends it and *)
(* triggers one execution of the buffer with the line appended.            *)
(***************************************************************************)
BufAfter(i) == IF i < Len(trace) THEN trace[i + 1].buf ELSE run_command

BlockAfter(i) == IF i < Len(trace) THEN trace[i + 1].block ELSE in_run_block

C25_BlockLinesNeverClassified ==
    \A i \in Events :
        trace[i].block =>
            /\ StoreAfter(i) = trace[i].store
            /\ EnvAfter(i) = trace[i].env
            /\ WdAfter(i) = trace[i].wd
            /\ IF ends_with(trace[i].line, Marker)
               THEN /\ trace[i].kind = "accum"
                    /\ BufAfter(i) = trace[i].buf \o StripMarker(trace[i].line) \o " "
                    /\ BlockAfter(i)
               ELSE /\ trace[i].kind = "run"
                    /\ trace[i].cmd = trace[i].buf \o trace[i].line

\* `ENV V $A` inside an open multi-line RUN was run as part of the command
\* and bound nothing
C25_Witness ==
    /\ Len(trace) = 2
    /\ OpensBlock(1)
    /\ trace[2].block
    /\ trace[2].line = "ENV V $A"
    /\ trace[2].kind = "run"
    /\ trace[2].cmd = "echo a  ENV V $A"
    /\ vars_map = NoBindings
    /\ status = "exit0"

(***************************************************************************)
(* C26: at every line boundary the process's current directory is the      *)
(* tracked working directory: initialisation and WORKDIR enter it at once  *)
(* and every RUN and ADD comes back to it.                                 *)
(***************************************************************************)
C26_CwdIsWorkdir ==
    /\ \A i \in Events : trace[i].cwd = trace[i].wd
    /\ status # "panic" => cwd = workdir

\* after `WORKDIR w` and a RUN the process is in scriptDir/w for the next
\* line
C26_Witness ==
    /\ Len(trace) = 3
    /\ trace[1].line = "WORKDIR w" /\ trace[1].ok
    /\ trace[2].kind = "run"
    /\ trace[3].cwd = "/d/w" /\ trace[3].wd = "/d/w"
    /\ status = "exit0"

(***************************************************************************)
(* C27: at a line boundary the pending buffer is empty whenever the        *)
(* continuation flag is false: a multi-line RUN never starts with text     *)
(* left over from an earlier command.                                      *)
(***************************************************************************)
C27_BufferEmptyWhenIdle ==
    /\ \A i \in Events : ~trace[i].block => trace[i].buf = ""
    /\ (status = "running" /\ ~in_run_block) => run_command = ""

\* a second multi-line RUN was opened after the first had run
C27_Witness ==
    /\ Len(trace) = 3
    /\ OpensBlock(1)
    /\ EndsBlock(2) /\ trace[2].ok
    /\ OpensBlock(3) /\ trace[3].buf = ""
    /\ in_run_block
    /\ run_command = "echo a  "

(***************************************************************************)
(* C28: expand_vars is deterministic: for a given text and store there is  *)
(* one result, whatever the order in which bound names of equal length are *)
(* processed, also when bound values hold `$NAME` references.              *)
(***************************************************************************)
C28_ExpandDeterministic ==
    \A i \in ExpandCalls :
        Cardinality(expand_vars(trace[i].cmd, trace[i].store)) = 1

====
